---- MODULE Spec2Model ----
(***************************************************************************)
(* A state-machine model of rasterio's warp module (_warp.pyx: _reproject) *)
(* and of the band I/O shim (io_band, io_multi_band, io_multi_mask).       *)
(*                                                                         *)
(* Spec         : one call of _reproject, one action per step of its body. *)
(* SpecBridge   : calls of the three shim transfer functions, one at a     *)
(*                time.                                                    *)
(* SpecGeom     : one call of _transform_geom.                             *)
(* SpecEstimate : one call of _calculate_default_transform.                *)
(***************************************************************************)
EXTENDS Integers, Sequences, FiniteSets, TLC

(* ------------------------------ bounds -------------------------------- *)

\* Largest band count of an array and largest band index of a selection.
MaxBands == 2

(* --------------------------- Python values ---------------------------- *)

\* Python's None and a present value v, as sequences of length 0 and 1.
None == <<>>

Some(v) == <<v>>

\* range(1, n + 1)
Range1(n) == [i \in 1..n |-> i]

\* The band selections (bidx) a Band tuple carries in the model: the
\* non-empty increasing sequences of band indices in 1..MaxBands.
BandSelections ==
    { s \in UNION { [1..n -> 1..MaxBands] : n \in 1..MaxBands } :
        \A i, j \in DOMAIN s : i < j => s[i] < s[j] }

\* Nodata values the callers and datasets use in the model.
NodataValues == {-1, 5}

OptNodata == {None} \cup { Some(v) : v \in NodataValues }

DTypes == {"uint8", "int16"}

DTypeMin(dtype) == IF dtype = "uint8" THEN 0 ELSE -32768

DTypeMax(dtype) == IF dtype = "uint8" THEN 255 ELSE 32767

\* rasterio._io.in_dtype_range(value, dtype): value within the dtype's range.
in_dtype_range(value, dtype) == DTypeMin(dtype) <= value /\ value <= DTypeMax(dtype)

\* str(n) for the thread counts and dateline offsets the model uses.
Str(n) ==
    CASE n = 0 -> "0"
      [] n = 1 -> "1"
      [] n = 2 -> "2"
      [] n = 3 -> "3"
      [] n = 10 -> "10"

\* str.upper() on the option keys and values the model uses.
Upper(s) ==
    CASE s = "max_gcp_order" -> "MAX_GCP_ORDER"
      [] s = "no_data"       -> "NO_DATA"
      [] s = "init_dest"     -> "INIT_DEST"
      [] s = "nearest"       -> "NEAREST"
      [] s = "bilinear"      -> "BILINEAR"
      [] s = "cubic"         -> "CUBIC"
      [] OTHER               -> s

\* CSLSetNameValue(list, key, value): the list with key set to value; a NULL
\* list is the empty list.
CSLSetNameValue(list, key, value) ==
    IF \E i \in DOMAIN list : list[i][1] = key
    THEN [i \in DOMAIN list |-> IF list[i][1] = key THEN <<key, value>> ELSE list[i]]
    ELSE Append(list, <<key, value>>)

(* --------------------------- raised errors ---------------------------- *)

\* No exception pending: the call is running or returned normally.
NoError == "none"

DriverRegistrationError == "DriverRegistrationError: 'MEM' driver not found"

CPLE_Error == "CPLE error raised by CPLErrors.check()"

CRSError == "CRSError"

InvalidSource == "ValueError: Invalid source"

InvalidDestination == "ValueError: Invalid destination"

ShapeError == "ValueError: Destination's shape is invalid"

TransformError == "ValueError: Failed to set transform on temp destination dataset."

ProjectionError == "TypeError: exceptions must derive from BaseException"

\* The spec's ConfigurationError of reproject.
ConfigurationError == "ValueError: src_nodata must be provided because dst_nodata is not None"

\* The spec's RangeError, source side and destination side.
SrcRangeError == "ValueError: src_nodata must be in valid range for source dtype"

DstRangeError == "ValueError: dst_nodata must be in valid range for destination dtype"

IndexError == "IndexError: list index out of range"

\* The spec's NullChannelFailure of transferMultiMask: its three raise sites.
NullBand == "ValueError: Null band"

NullMaskBand == "ValueError: Null mask band"

NullData == "ValueError: NULL data"

(* ------------------------------ state --------------------------------- *)

VARIABLES
    pc,              \* position in _reproject
    source,          \* the source argument
    destination,     \* the destination argument
    args,            \* src_nodata, dst_nodata, src_transform, gcps as passed
    kwargs,          \* **kwargs, num_threads, init_dest_nodata: the signature's
    num_threads,     \*   default until the body first reads the argument, the
    init_dest_nodata,\*   caller's value from then on
    src_nodata,      \* local src_nodata
    dst_nodata,      \* local dst_nodata
    src_count,
    src_bidx,
    dst_bidx,
    src_dataset,     \* "NULL" or the name of a dataset
    dst_dataset,
    datasets,        \* dataset name -> "absent" | "open" | "closed"
    dsattr,          \* georeferencing set on the temporary source dataset
    imgProjOptions,  \* option list given to the transformer constructor
    warp_extras,     \* option list of the warper
    hTransformArg,   \* "NULL" | "live" | "destroyed"
    psWOptions,      \* the GDALWarpOptions structure
    released,        \* number of release calls on each live native resource
    oWarper,         \* the GDALWarpOperation: initialisations and warp calls
    retval,          \* last status returned by io_auto
    raised,          \* exception the call ended with, NoError if none
    events,          \* the transfers, native calls and closes made, in order
    (* the band I/O shim, per calling thread *)
    config,          \* the process-wide option GDAL_RASTERIO_RESAMPLING
    bpc,             \* position of the thread's shim call
    bcall,           \* the call: function, resampling, indexes
    stored_val,      \* local stored_val
    bi,              \* position in indexes of the channel being handled
    bretval,         \* local retval
    braised,         \* exception the shim call ended with
    transferred,     \* channels whose GDALRasterIO returned 0, in order
    attempted,       \* channels GDALRasterIO was called for, in order
    first_failure,   \* position of the first channel that failed, 0 if none
    idle_config,     \* the option's value when a call last began with no other
                     \*   call in progress
    overlapped,      \* the thread's call began, or another call began, while
                     \*   a call of another thread had not returned
    (* _transform_geom *)
    gpc,             \* position in _transform_geom
    gargs,           \* antimeridian_cutting, antimeridian_offset, precision
    gres,            \* native resource -> "NULL" | "live" | "destroyed"
    gfreed,          \* native resource -> number of release calls on it
    options,         \* the option list of the geometry transformation
    passed_options,  \* the list transformWithOptions was called with, or None
    graised,         \* exception the call ended with
    (* _calculate_default_transform *)
    epc,             \* position in _calculate_default_transform
    eargs,           \* left, bottom, right, top, width, height, gcps
    transform,       \* local transform
    eres,            \* scratch resource -> "NULL" | "live" | "destroyed"
    efreed,          \* scratch resource -> number of release calls on it
    temp,            \* the arguments the InMemoryRaster was made with, or None
    captured,        \* the native error a cple.check() raised, NoError if none
    suggested,       \* GDALSuggestedWarpOutput2 has been called
    output,          \* geotransform, npixels, nlines
    eraised,         \* exception the call ended with
    eresult          \* the returned (dst_affine, dst_width, dst_height), or None

rvars == << pc, source, destination, args, kwargs, num_threads,
            init_dest_nodata, src_nodata, dst_nodata, src_count,
            src_bidx, dst_bidx, src_dataset, dst_dataset, datasets, dsattr,
            imgProjOptions, warp_extras, hTransformArg, psWOptions, released,
            oWarper, retval, raised, events >>

bvars == << config, bpc, bcall, stored_val, bi, bretval, braised, transferred,
            attempted, first_failure, idle_config, overlapped >>

gvars == << gpc, gargs, gres, gfreed, options, passed_options, graised >>

evars == << epc, eargs, transform, eres, efreed, temp, captured, suggested,
            output, eraised, eresult >>

vars == << rvars, bvars, gvars, evars >>

(* ------------------------- arguments of a call ------------------------ *)

\* (rows, cols) of the ndarray arguments and of the Band tuples of the model.
ArrayShape == <<2, 3>>

BandShape == <<4, 5>>

\* An argument that is neither an ndarray nor a tuple.
NoRaster ==
    [kind |-> "other", shape0 |-> 0, shape |-> <<0, 0>>, bidx |-> <<>>,
     dtype |-> "uint8", fill_value |-> None, nodata |-> None]

\* An ndarray argument: shape0 bands of element type dtype; fill_value is
\* present when the array is masked and then lies in the dtype's range.  A
\* Band tuple (ds, bidx, dtype, shape): nodata is the dataset's stored nodata.
Rasters ==
    { [kind |-> "ndarray", shape0 |-> n, shape |-> ArrayShape, bidx |-> <<>>,
       dtype |-> d, fill_value |-> f, nodata |-> None] :
          n \in 1..MaxBands, d \in DTypes, f \in OptNodata }
    \cup
    { [kind |-> "tuple", shape0 |-> 0, shape |-> BandShape, bidx |-> b,
       dtype |-> d, fill_value |-> None, nodata |-> nd] :
          b \in BandSelections, d \in DTypes, nd \in OptNodata }
    \cup
    { NoRaster }

ValidRaster(r) ==
    r.fill_value # None => in_dtype_range(r.fill_value[1], r.dtype)

\* The extra keyword options of a call, as (key, value) pairs.
KwargsChoices == { <<>>, << <<"max_gcp_order", "2">> >> }

Arguments ==
    [ src_nodata : OptNodata, dst_nodata : OptNodata,
      src_transform : BOOLEAN, gcps : BOOLEAN ]

\* Thread counts a caller passes.
ThreadChoices == {1, 2}

\* dtypes.is_ndarray(x)
is_ndarray(x) == x.kind = "ndarray"

\* hasattr(x, 'fill_value'): x is a masked array
has_fill_value(x) == x.kind = "ndarray" /\ x.fill_value # None

(* ----------------------- native resources ----------------------------- *)

NullWarpOptions ==
    [ state |-> "NULL", papszWarpOptions |-> <<>>,
      padfSrcNoDataReal |-> <<>>, padfDstNoDataReal |-> <<>>,
      panSrcBands |-> <<>>, panDstBands |-> <<>>, nBandCount |-> 0 ]

\* GDALCreateWarpOptions()
GDALCreateWarpOptions == [NullWarpOptions EXCEPT !.state = "live"]

\* GDALDestroyApproxTransformer(h), GDALDestroyWarpOptions(p): the state of
\* the pointed-to object after the call.
Destroyed(state) == IF state = "NULL" THEN "NULL" ELSE "destroyed"

\* One more release call on a resource, counted when the pointer is not NULL.
Count(n, nonnull) == IF nonnull THEN n + 1 ELSE n

\* GDALDestroyApproxTransformer(hTransformArg); GDALDestroyWarpOptions(
\* psWOptions); CPLFree(imgProjOptions), as one cleanup sequence: the values
\* of released, hTransformArg and psWOptions after it, the transformer being
\* in state h and the options structure being p when it starts.
ReleaseTransformerAndOptions(h, p) ==
    /\ released' = [ transformer |-> Count(released.transformer, h # "NULL"),
                     warp_options |-> Count(released.warp_options, p.state # "NULL"),
                     option_list |-> Count(released.option_list, imgProjOptions # <<>>) ]
    /\ hTransformArg' = Destroyed(h)
    /\ psWOptions' = [p EXCEPT !.state = Destroyed(p.state)]

\* GDALClose(h) on the dataset table.
GDALClose(h) == [datasets EXCEPT ![h] = "closed"]

(* ----------------------------- _reproject ----------------------------- *)

RInit ==
    /\ pc = "source"
    /\ source \in { r \in Rasters : ValidRaster(r) }
    /\ destination \in { r \in Rasters : ValidRaster(r) }
    /\ args \in { a \in Arguments : ~is_ndarray(source) => ~a.src_transform /\ ~a.gcps }
    /\ kwargs = <<>>
    /\ num_threads = 1
    /\ init_dest_nodata = TRUE
    /\ src_nodata = args.src_nodata
    /\ dst_nodata = args.dst_nodata
    /\ src_count = 0
    /\ src_bidx = <<>>
    /\ dst_bidx = <<>>
    /\ src_dataset = "NULL"
    /\ dst_dataset = "NULL"
    /\ datasets = [ src_mem |-> "absent", dst_mem |-> "absent",
                    src_handle |-> IF source.kind = "tuple" THEN "open" ELSE "absent",
                    dst_handle |-> IF destination.kind = "tuple" THEN "open" ELSE "absent" ]
    /\ dsattr = [ geotransform |-> FALSE, gcps |-> FALSE, crs |-> FALSE ]
    /\ imgProjOptions = <<>>
    /\ warp_extras = <<>>
    /\ hTransformArg = "NULL"
    /\ psWOptions = NullWarpOptions
    /\ released = [ transformer |-> 0, warp_options |-> 0, option_list |-> 0 ]
    /\ oWarper = [ state |-> "NULL", initialized |-> 0, calls |-> <<>>,
                   windows |-> <<>>, gil_held |-> <<>> ]
    /\ retval = 0
    /\ raised = NoError
    /\ events = <<>>

\* An exception leaves the function: outside the try block of line 497 the
\* call ends at once, inside it the finally clause runs first.
Raise(err) == pc' = "done" /\ raised' = err

\* Faulty variant of RaiseInTry: the try body goes on to the read-back.
RaiseInTry_Continue(err) == pc' = "read_back" /\ raised' = err

RaiseInTry(err) == pc' = "finally" /\ raised' = err

\* Lines 202-223: ndarray source, band count, masked fill value, MEM driver.
SrcArray ==
    /\ pc = "source" /\ is_ndarray(source)
    /\ src_count' = source.shape0
    /\ src_bidx' = Range1(source.shape0)
    /\ src_nodata' = IF src_nodata = None /\ has_fill_value(source)
                     THEN source.fill_value ELSE src_nodata
    /\ \E found \in BOOLEAN :
         IF found THEN pc' = "src_create" /\ raised' = raised
                  ELSE Raise(DriverRegistrationError)
    /\ UNCHANGED << bvars, gvars, evars, events, source, destination, args, kwargs, num_threads, init_dest_nodata,
                    dst_nodata, dst_bidx, src_dataset,
                    dst_dataset, datasets, dsattr, imgProjOptions, warp_extras,
                    hTransformArg, psWOptions, released, oWarper, retval >>

\* Lines 225-236: GDALCreate of the temporary source dataset.
SrcCreate ==
    /\ pc = "src_create"
    /\ \E created \in BOOLEAN :
         IF created
         THEN /\ src_dataset' = "src_mem"
              /\ datasets' = [datasets EXCEPT !.src_mem = "open"]
              /\ pc' = "src_georef" /\ raised' = raised
         ELSE /\ Raise(CPLE_Error)
              /\ UNCHANGED << src_dataset, datasets >>
    /\ UNCHANGED << bvars, gvars, evars, events, source, destination, args, kwargs, num_threads, init_dest_nodata,
                    src_nodata, dst_nodata, src_count,
                    src_bidx, dst_bidx, dst_dataset, dsattr, imgProjOptions,
                    warp_extras, hTransformArg, psWOptions, released, oWarper,
                    retval >>

\* Lines 238-270: geotransform and CRS, or else ground control points (with
\* srcwkt still NULL), on the temporary source dataset.
SrcGeoref ==
    /\ pc = "src_georef"
    /\ IF args.src_transform
       THEN \E resolved \in BOOLEAN :
              IF resolved
              THEN /\ dsattr' = [dsattr EXCEPT !.geotransform = TRUE, !.crs = TRUE]
                   /\ pc' = "src_write" /\ raised' = raised
              ELSE /\ dsattr' = [dsattr EXCEPT !.geotransform = TRUE]
                   /\ Raise(CRSError)
       ELSE /\ dsattr' = IF args.gcps THEN [dsattr EXCEPT !.gcps = TRUE] ELSE dsattr
            /\ pc' = "src_write" /\ raised' = raised
    /\ UNCHANGED << bvars, gvars, evars, events, source, destination, args, kwargs, num_threads, init_dest_nodata,
                    src_nodata, dst_nodata, src_count,
                    src_bidx, dst_bidx, src_dataset, dst_dataset, datasets,
                    imgProjOptions, warp_extras, hTransformArg, psWOptions,
                    released, oWarper, retval >>

\* Lines 272-275: io_auto(source, src_dataset, 1); the status is not looked at.
SrcWrite ==
    /\ pc = "src_write"
    /\ \E status \in {0, 3} : retval' = status
    /\ pc' = "destination"
    /\ events' = Append(events, "src_write")
    /\ UNCHANGED << bvars, gvars, evars, source, destination, args, kwargs, num_threads, init_dest_nodata,
                    src_nodata, dst_nodata, src_count,
                    src_bidx, dst_bidx, src_dataset, dst_dataset, datasets, dsattr,
                    imgProjOptions, warp_extras, hTransformArg, psWOptions,
                    released, oWarper, raised >>

\* Lines 279-287: Band tuple source; the dataset's handle is used as it is.
SrcBand ==
    /\ pc = "source" /\ source.kind = "tuple"
    /\ src_bidx' = source.bidx
    /\ src_count' = Len(source.bidx)
    /\ src_dataset' = "src_handle"
    /\ src_nodata' = IF src_nodata = None THEN source.nodata ELSE src_nodata
    /\ pc' = "destination"
    /\ UNCHANGED << bvars, gvars, evars, events, source, destination, args, kwargs, num_threads, init_dest_nodata,
                    dst_nodata, dst_bidx, dst_dataset,
                    datasets, dsattr, imgProjOptions, warp_extras, hTransformArg,
                    psWOptions, released, oWarper, retval, raised >>

\* Lines 288-289.
SrcInvalid ==
    /\ pc = "source" /\ ~is_ndarray(source) /\ source.kind # "tuple"
    /\ Raise(InvalidSource)
    /\ UNCHANGED << bvars, gvars, evars, events, source, destination, args, kwargs, num_threads, init_dest_nodata,
                    src_nodata, dst_nodata, src_count,
                    src_bidx, dst_bidx, src_dataset, dst_dataset, datasets, dsattr,
                    imgProjOptions, warp_extras, hTransformArg, psWOptions,
                    released, oWarper, retval >>

\* Line 295: the band-count test made for an ndarray destination.
ShapeMismatch(dst, count) == dst.shape0 # count

\* Lines 292-307: ndarray destination, band-count test, MEM driver.
DstArray ==
    /\ pc = "destination" /\ is_ndarray(destination)
    /\ IF ShapeMismatch(destination, src_count)
       THEN Raise(ShapeError) /\ UNCHANGED dst_bidx
       ELSE /\ dst_bidx' = src_bidx
            /\ \E found \in BOOLEAN :
                 IF found THEN pc' = "dst_create" /\ raised' = raised
                          ELSE Raise(DriverRegistrationError)
    /\ UNCHANGED << bvars, gvars, evars, events, source, destination, args, kwargs, num_threads, init_dest_nodata,
                    src_nodata, dst_nodata, src_count,
                    src_bidx, src_dataset, dst_dataset, datasets, dsattr,
                    imgProjOptions, warp_extras, hTransformArg, psWOptions,
                    released, oWarper, retval >>

\* Lines 309-321: GDALCreate of the temporary destination dataset.
DstCreate ==
    /\ pc = "dst_create"
    /\ \E created \in BOOLEAN :
         IF created
         THEN /\ dst_dataset' = "dst_mem"
              /\ datasets' = [datasets EXCEPT !.dst_mem = "open"]
              /\ pc' = "dst_georef" /\ raised' = raised
         ELSE /\ Raise(CPLE_Error)
              /\ UNCHANGED << dst_dataset, datasets >>
    /\ UNCHANGED << bvars, gvars, evars, events, source, destination, args, kwargs, num_threads, init_dest_nodata,
                    src_nodata, dst_nodata, src_count,
                    src_bidx, dst_bidx, src_dataset, dsattr, imgProjOptions,
                    warp_extras, hTransformArg, psWOptions, released, oWarper,
                    retval >>

\* Lines 323-339: geotransform and projection of the temporary destination.
DstGeoref ==
    /\ pc = "dst_georef"
    /\ \E outcome \in {NoError, TransformError, CRSError, ProjectionError} :
         IF outcome = NoError THEN pc' = "dst_write" /\ raised' = raised
                              ELSE Raise(outcome)
    /\ UNCHANGED << bvars, gvars, evars, events, source, destination, args, kwargs, num_threads, init_dest_nodata,
                    src_nodata, dst_nodata, src_count,
                    src_bidx, dst_bidx, src_dataset, dst_dataset, datasets, dsattr,
                    imgProjOptions, warp_extras, hTransformArg, psWOptions,
                    released, oWarper, retval >>

\* Lines 341-346: io_auto(destination, dst_dataset, 1), status not looked at;
\* a masked destination gives its fill value as dst_nodata.
DstWrite ==
    /\ pc = "dst_write"
    /\ \E status \in {0, 3} : retval' = status
    /\ dst_nodata' = IF dst_nodata = None /\ has_fill_value(destination)
                     THEN destination.fill_value ELSE dst_nodata
    /\ pc' = "options"
    /\ events' = Append(events, "dst_write")
    /\ UNCHANGED << bvars, gvars, evars, source, destination, args, kwargs, num_threads, init_dest_nodata,
                    src_nodata, src_count, src_bidx,
                    dst_bidx, src_dataset, dst_dataset, datasets, dsattr,
                    imgProjOptions, warp_extras, hTransformArg, psWOptions,
                    released, oWarper, raised >>

\* Lines 348-355: Band tuple destination; no band-count test is made.
DstBand ==
    /\ pc = "destination" /\ ~is_ndarray(destination) /\ destination.kind = "tuple"
    /\ dst_bidx' = destination.bidx
    /\ dst_dataset' = "dst_handle"
    /\ dst_nodata' = IF dst_nodata = None THEN destination.nodata ELSE dst_nodata
    /\ pc' = "options"
    /\ UNCHANGED << bvars, gvars, evars, events, source, destination, args, kwargs, num_threads, init_dest_nodata,
                    src_nodata, src_count, src_bidx,
                    src_dataset, datasets, dsattr, imgProjOptions, warp_extras,
                    hTransformArg, psWOptions, released, oWarper, retval, raised >>

\* Lines 356-357.
DstInvalid ==
    /\ pc = "destination" /\ ~is_ndarray(destination) /\ destination.kind # "tuple"
    /\ Raise(InvalidDestination)
    /\ UNCHANGED << bvars, gvars, evars, events, source, destination, args, kwargs, num_threads, init_dest_nodata,
                    src_nodata, dst_nodata, src_count,
                    src_bidx, dst_bidx, src_dataset, dst_dataset, datasets, dsattr,
                    imgProjOptions, warp_extras, hTransformArg, psWOptions,
                    released, oWarper, retval >>

\* Lines 363-376: the transformer's option list.  The list CSLSetNameValue
\* returns at line 365 is not assigned, so imgProjOptions is still NULL when
\* the loop over kwargs starts.
RECURSIVE UpperOptions(_, _)
UpperOptions(list, items) ==
    IF items = <<>> THEN list
    ELSE UpperOptions(
             CSLSetNameValue(list, Upper(Head(items)[1]), Upper(Head(items)[2])),
             Tail(items))

TransformerOptions ==
    /\ pc = "options"
    /\ kwargs' \in KwargsChoices
    /\ imgProjOptions' = UpperOptions(imgProjOptions, kwargs')
    /\ pc' = "transformer"
    /\ UNCHANGED << bvars, gvars, evars, events, source, destination, args, num_threads, init_dest_nodata,
                    src_nodata, dst_nodata, src_count,
                    src_bidx, dst_bidx, src_dataset, dst_dataset, datasets, dsattr,
                    warp_extras, hTransformArg, psWOptions, released, oWarper,
                    retval, raised >>

\* Lines 378-394: transformer chain and warp options.  An error caught by the
\* check of line 386 leaves psWOptions NULL, one caught by the check of line
\* 388 leaves both objects; the except clause releases what there is.
CreateTransformer ==
    /\ pc = "transformer"
    /\ \E outcome \in {"ok", "check386", "check388"} :
         CASE outcome = "ok" ->
                /\ hTransformArg' = "live"
                /\ psWOptions' = GDALCreateWarpOptions
                /\ pc' = "warp_extras" /\ raised' = raised
                /\ UNCHANGED released
                /\ events' = Append(events, "transformer")
           [] outcome = "check386" ->
                /\ ReleaseTransformerAndOptions("live", psWOptions)
                /\ Raise(CPLE_Error)
                /\ UNCHANGED events
           [] outcome = "check388" ->
                /\ ReleaseTransformerAndOptions("live", GDALCreateWarpOptions)
                /\ Raise(CPLE_Error)
                /\ UNCHANGED events
    /\ UNCHANGED << bvars, gvars, evars, source, destination, args, kwargs, num_threads, init_dest_nodata,
                    src_nodata, dst_nodata, src_count,
                    src_bidx, dst_bidx, src_dataset, dst_dataset, datasets, dsattr,
                    imgProjOptions, warp_extras, oWarper, retval >>

\* Lines 396-416: the warper's option list: the structure's defaults, the
\* thread count and the uppercased kwargs.
WarpExtras ==
    /\ pc = "warp_extras"
    /\ num_threads' \in ThreadChoices
    /\ warp_extras' = UpperOptions(
           CSLSetNameValue(psWOptions.papszWarpOptions, "NUM_THREADS", Str(num_threads')),
           kwargs)
    /\ pc' = "nodata"
    /\ UNCHANGED << bvars, gvars, evars, events, source, destination, args, kwargs, init_dest_nodata,
                    src_nodata, dst_nodata, src_count,
                    src_bidx, dst_bidx, src_dataset, dst_dataset, datasets, dsattr,
                    imgProjOptions, hTransformArg, psWOptions, released, oWarper,
                    retval, raised >>

\* Faulty variant of NodataMissing: the two operands of the test exchanged.
NodataMissing_Swapped(src, dst) == src # None /\ dst = None

\* Line 419: a destination nodata without a source nodata.
NodataMissing(src, dst) == src = None /\ dst # None

\* Faulty variant of DefaultDstNodata: the source nodata is not looked at.
DefaultDstNodata_Zero(src) == Some(0)

\* Lines 428-432: the destination nodata when none is set by now.
DefaultDstNodata(src) == IF src # None THEN src ELSE Some(0)

\* Lines 418-433: src_nodata and dst_nodata.
SetNodata ==
    /\ pc = "nodata"
    /\ IF NodataMissing(src_nodata, dst_nodata)
       THEN /\ ReleaseTransformerAndOptions(
                   hTransformArg, [psWOptions EXCEPT !.papszWarpOptions = warp_extras])
            /\ Raise(ConfigurationError)
            /\ UNCHANGED dst_nodata
       ELSE /\ dst_nodata' = IF dst_nodata = None THEN DefaultDstNodata(src_nodata)
                                                  ELSE dst_nodata
            /\ pc' = "validate_src" /\ raised' = raised
            /\ UNCHANGED << hTransformArg, psWOptions, released >>
    /\ UNCHANGED << bvars, gvars, evars, events, source, destination, args, kwargs, num_threads, init_dest_nodata,
                    src_nodata, src_count, src_bidx,
                    dst_bidx, src_dataset, dst_dataset, datasets, dsattr,
                    imgProjOptions, warp_extras, oWarper, retval >>

\* Faulty variant of NodataOutOfRange: only the upper end of the range is tested.
NodataOutOfRange_NoLower(nodata, raster) ==
    nodata # None /\ nodata[1] > DTypeMax(raster.dtype)

\* Lines 436-437 and 456-457: a nodata value that is set and outside the
\* range of the raster's dtype.
NodataOutOfRange(nodata, raster) ==
    nodata # None /\ ~in_dtype_range(nodata[1], raster.dtype)

\* Lines 435-453: source nodata validation and per-band source nodata.
ValidateSrcNodata ==
    /\ pc = "validate_src"
    /\ IF src_nodata # None
       THEN IF NodataOutOfRange(src_nodata, source)
            THEN /\ ReleaseTransformerAndOptions(
                        hTransformArg, [psWOptions EXCEPT !.papszWarpOptions = warp_extras])
                 /\ Raise(SrcRangeError)
                 /\ UNCHANGED warp_extras
            ELSE /\ psWOptions' = [psWOptions EXCEPT !.padfSrcNoDataReal =
                                       [i \in 1..src_count |-> src_nodata[1]]]
                 /\ warp_extras' = CSLSetNameValue(warp_extras, "UNIFIED_SRC_NODATA", "YES")
                 /\ pc' = "validate_dst" /\ raised' = raised
                 /\ UNCHANGED << hTransformArg, released >>
       ELSE /\ pc' = "validate_dst" /\ raised' = raised
            /\ UNCHANGED << hTransformArg, psWOptions, released, warp_extras >>
    /\ UNCHANGED << bvars, gvars, evars, events, source, destination, args, kwargs, num_threads, init_dest_nodata,
                    src_nodata, dst_nodata, src_count,
                    src_bidx, dst_bidx, src_dataset, dst_dataset, datasets, dsattr,
                    imgProjOptions, oWarper, retval >>

\* Lines 456-469: destination nodata validation and per-band destination
\* nodata.
ValidateDstNodata ==
    /\ pc = "validate_dst"
    /\ IF NodataOutOfRange(dst_nodata, destination)
       THEN /\ ReleaseTransformerAndOptions(
                   hTransformArg, [psWOptions EXCEPT !.papszWarpOptions = warp_extras])
            /\ Raise(DstRangeError)
       ELSE /\ psWOptions' = [psWOptions EXCEPT !.padfDstNoDataReal =
                                  [i \in 1..src_count |-> dst_nodata[1]]]
            /\ pc' = "bands" /\ raised' = raised
            /\ UNCHANGED << hTransformArg, released >>
    /\ UNCHANGED << bvars, gvars, evars, events, source, destination, args, kwargs, num_threads, init_dest_nodata,
                    src_nodata, dst_nodata, src_count,
                    src_bidx, dst_bidx, src_dataset, dst_dataset, datasets, dsattr,
                    imgProjOptions, warp_extras, oWarper, retval >>

\* Lines 471-488: INIT_DEST, the option list stored back into the structure,
\* and the band maps.  dst_bidx[i] raises IndexError when dst_bidx is shorter
\* than src_count; this is outside any try block.
SetBands ==
    /\ pc = "bands"
    /\ init_dest_nodata' \in BOOLEAN
    /\ warp_extras' = IF init_dest_nodata'
                      THEN CSLSetNameValue(warp_extras, "INIT_DEST", "NO_DATA")
                      ELSE warp_extras
    /\ IF Len(dst_bidx) < src_count
       THEN /\ psWOptions' = [psWOptions EXCEPT !.papszWarpOptions = warp_extras',
                                                !.nBandCount = src_count]
            /\ Raise(IndexError)
       ELSE /\ psWOptions' = [psWOptions EXCEPT
                                 !.papszWarpOptions = warp_extras',
                                 !.nBandCount = src_count,
                                 !.panSrcBands = [i \in 1..src_count |-> src_bidx[i]],
                                 !.panDstBands = [i \in 1..src_count |-> dst_bidx[i]]]
            /\ pc' = "initialize" /\ raised' = raised
    /\ UNCHANGED << bvars, gvars, evars, events, source, destination, args, kwargs, num_threads,
                    src_nodata, dst_nodata, src_count,
                    src_bidx, dst_bidx, src_dataset, dst_dataset, datasets, dsattr,
                    imgProjOptions, hTransformArg, released, oWarper, retval >>

\* Lines 496-500: new GDALWarpOperation and its Initialize.
WarpInitialize ==
    /\ pc = "initialize"
    /\ oWarper' = [oWarper EXCEPT !.state = "live", !.initialized = @ + 1]
    /\ \E ok \in BOOLEAN :
         IF ok THEN pc' = "execute" /\ raised' = raised
               ELSE RaiseInTry(CPLE_Error)
    /\ UNCHANGED << bvars, gvars, evars, events, source, destination, args, kwargs, num_threads, init_dest_nodata,
                    src_nodata, dst_nodata, src_count,
                    src_bidx, dst_bidx, src_dataset, dst_dataset, datasets, dsattr,
                    imgProjOptions, warp_extras, hTransformArg, psWOptions,
                    released, retval >>

\* Faulty variant of WarpEntry: the thread count is not looked at.
WarpEntry_AlwaysImage(threads) == "ChunkAndWarpImage"

\* Lines 507-512: the warp entry point chosen by the thread count.
WarpEntry(threads) ==
    IF threads > 1 THEN "ChunkAndWarpMulti" ELSE "ChunkAndWarpImage"

\* Lines 501-513: the warp over the window (0, 0, cols, rows), rows and cols
\* being the last two entries of destination.shape (line 501); both entry
\* points are called in a nogil block.
ChunkAndWarp ==
    /\ pc = "execute"
    /\ LET rows == destination.shape[1]
           cols == destination.shape[2]
       IN oWarper' = [oWarper EXCEPT
                        !.calls = Append(@, WarpEntry(num_threads)),
                        !.windows = Append(@, <<0, 0, cols, rows>>),
                        !.gil_held = Append(@, FALSE)]
    /\ events' = Append(events, "warp")
    /\ \E ok \in BOOLEAN :
         IF ok THEN /\ pc' = IF is_ndarray(destination) THEN "read_back" ELSE "finally"
                    /\ raised' = raised
               ELSE RaiseInTry(CPLE_Error)
    /\ UNCHANGED << bvars, gvars, evars, source, destination, args, kwargs, num_threads, init_dest_nodata,
                    src_nodata, dst_nodata, src_count,
                    src_bidx, dst_bidx, src_dataset, dst_dataset, datasets, dsattr,
                    imgProjOptions, warp_extras, hTransformArg, psWOptions,
                    released, retval >>

\* Lines 515-517: io_auto(destination, dst_dataset, 0), status not looked at.
ReadBack ==
    /\ pc = "read_back"
    /\ \E status \in {0, 3} : retval' = status
    /\ pc' = "close_dst"
    /\ events' = Append(events, "read_back")
    /\ UNCHANGED << bvars, gvars, evars, source, destination, args, kwargs, num_threads, init_dest_nodata,
                    src_nodata, dst_nodata, src_count,
                    src_bidx, dst_bidx, src_dataset, dst_dataset, datasets, dsattr,
                    imgProjOptions, warp_extras, hTransformArg, psWOptions,
                    released, oWarper, raised >>

\* Faulty variant of ClosesDataset: the test that the raster is an ndarray is left out.
ClosesDataset_NoOwnerTest(raster, dataset) == dataset # "NULL"

\* Lines 515 and 519: the destination dataset is closed after the read-back
\* of an ndarray destination.  Lines 527-528: the source dataset is closed
\* in the finally clause when the source is an ndarray.
ClosesDataset(raster, dataset) == is_ndarray(raster) /\ dataset # "NULL"

\* Lines 519-520: the temporary destination is closed.
CloseDst ==
    /\ pc = "close_dst"
    /\ datasets' = IF ClosesDataset(destination, dst_dataset)
                   THEN GDALClose(dst_dataset) ELSE datasets
    /\ pc' = "finally"
    /\ events' = IF ClosesDataset(destination, dst_dataset)
                 THEN Append(events, "close_dst") ELSE events
    /\ UNCHANGED << bvars, gvars, evars, source, destination, args, kwargs, num_threads, init_dest_nodata,
                    src_nodata, dst_nodata, src_count,
                    src_bidx, dst_bidx, src_dataset, dst_dataset, dsattr,
                    imgProjOptions, warp_extras, hTransformArg, psWOptions,
                    released, oWarper, retval, raised >>

\* Lines 523-529: the finally clause of the try block of line 497.
Finally ==
    /\ pc = "finally"
    /\ ReleaseTransformerAndOptions(hTransformArg, psWOptions)
    /\ datasets' = IF ClosesDataset(source, src_dataset)
                   THEN GDALClose(src_dataset) ELSE datasets
    /\ pc' = "done"
    /\ events' = IF ClosesDataset(source, src_dataset)
                 THEN Append(events, "close_src") ELSE events
    /\ UNCHANGED << bvars, gvars, evars, source, destination, args, kwargs, num_threads, init_dest_nodata,
                    src_nodata, dst_nodata, src_count,
                    src_bidx, dst_bidx, src_dataset, dst_dataset, dsattr,
                    imgProjOptions, warp_extras, oWarper, retval, raised >>

\* No _reproject call: the state of its variables while only the shim runs.
RIdle ==
    /\ pc = "idle"
    /\ source = NoRaster
    /\ destination = source
    /\ args = [src_nodata |-> None, dst_nodata |-> None,
               src_transform |-> FALSE, gcps |-> FALSE]
    /\ kwargs = <<>>
    /\ num_threads = 1
    /\ init_dest_nodata = TRUE
    /\ src_nodata = None
    /\ dst_nodata = None
    /\ src_count = 0
    /\ src_bidx = <<>>
    /\ dst_bidx = <<>>
    /\ src_dataset = "NULL"
    /\ dst_dataset = "NULL"
    /\ datasets = [ src_mem |-> "absent", dst_mem |-> "absent",
                    src_handle |-> "absent", dst_handle |-> "absent" ]
    /\ dsattr = [ geotransform |-> FALSE, gcps |-> FALSE, crs |-> FALSE ]
    /\ imgProjOptions = <<>>
    /\ warp_extras = <<>>
    /\ hTransformArg = "NULL"
    /\ psWOptions = NullWarpOptions
    /\ released = [ transformer |-> 0, warp_options |-> 0, option_list |-> 0 ]
    /\ oWarper = [ state |-> "NULL", initialized |-> 0, calls |-> <<>>,
                   windows |-> <<>>, gil_held |-> <<>> ]
    /\ retval = 0
    /\ raised = NoError
    /\ events = <<>>

RNext ==
    \/ SrcArray \/ SrcCreate \/ SrcGeoref \/ SrcWrite \/ SrcBand \/ SrcInvalid
    \/ DstArray \/ DstCreate \/ DstGeoref \/ DstWrite \/ DstBand \/ DstInvalid
    \/ TransformerOptions \/ CreateTransformer \/ WarpExtras \/ SetNodata
    \/ ValidateSrcNodata \/ ValidateDstNodata \/ SetBands \/ WarpInitialize
    \/ ChunkAndWarp \/ ReadBack \/ CloseDst \/ Finally

(* ---------------------------- band I/O shim --------------------------- *)

Threads == {1, 2}

\* rasterio.enums.Resampling(n).name for the first members of the enum, in
\* the order the docstring of _reproject lists them.
ResamplingName(n) ==
    CASE n = 0 -> "nearest"
      [] n = 1 -> "bilinear"
      [] n = 2 -> "cubic"

\* Resampling arguments the callers pass.
ResamplingChoices == {0, 1}

\* Values the option has before any call: unset, or set by the user.
ConfigChoices == { None, Some("NEAREST"), Some("CUBIC") }

\* Index arrays the callers pass: any sequence of at most MaxBands+1 indices
\* from 1..MaxBands+1, the dataset having the bands 1..MaxBands.
IndexChoices == UNION { [1..n -> 1..(MaxBands + 1)] : n \in 0..(MaxBands + 1) }

NoCall == [ fn |-> "none", resampling |-> 0, indexes |-> <<>> ]

BInit ==
    /\ config \in ConfigChoices
    /\ bpc = [t \in Threads |-> "idle"]
    /\ bcall = [t \in Threads |-> NoCall]
    /\ stored_val = [t \in Threads |-> None]
    /\ bi = [t \in Threads |-> 0]
    /\ bretval = [t \in Threads |-> 3]
    /\ braised = [t \in Threads |-> NoError]
    /\ transferred = [t \in Threads |-> <<>>]
    /\ attempted = [t \in Threads |-> <<>>]
    /\ first_failure = [t \in Threads |-> 0]
    /\ idle_config = config
    /\ overlapped = [t \in Threads |-> FALSE]

\* No shim call: the state of the shim's variables while _reproject runs.
BIdle ==
    /\ config = None
    /\ bpc = [t \in Threads |-> "idle"]
    /\ bcall = [t \in Threads |-> NoCall]
    /\ stored_val = [t \in Threads |-> None]
    /\ bi = [t \in Threads |-> 0]
    /\ bretval = [t \in Threads |-> 3]
    /\ braised = [t \in Threads |-> NoError]
    /\ transferred = [t \in Threads |-> <<>>]
    /\ attempted = [t \in Threads |-> <<>>]
    /\ first_failure = [t \in Threads |-> 0]
    /\ idle_config = None
    /\ overlapped = [t \in Threads |-> FALSE]

\* Faulty variant of CPLGetConfigOption: the option is always read as unset.
CPLGetConfigOption_Unset == None

\* CPLGetConfigOption("GDAL_RASTERIO_RESAMPLING", NULL): the value is taken as
\* a copy the caller owns, which is what the CPLFree that follows requires.
CPLGetConfigOption == config

\* Entry of io_band (lines 28-41), io_multi_band (71-88) or io_multi_mask
\* (123-141): the locals are set (retval = 3) and the option's value is saved.
Enter(t, fn, resampling, indexes) ==
    /\ bpc[t] = "idle"
    /\ bcall' = [bcall EXCEPT ![t] = [fn |-> fn, resampling |-> resampling,
                                      indexes |-> indexes]]
    /\ stored_val' = [stored_val EXCEPT ![t] = CPLGetConfigOption]
    /\ bretval' = [bretval EXCEPT ![t] = 3]
    /\ bi' = [bi EXCEPT ![t] = 0]
    /\ bpc' = [bpc EXCEPT ![t] = "override"]
    /\ idle_config' = IF \A u \in Threads : bpc[u] = "idle" THEN config
                                                           ELSE idle_config
    /\ overlapped' = [u \in Threads |->
                        IF u = t THEN \E v \in Threads \ {t} : bpc[v] # "idle"
                        ELSE overlapped[u] \/ bpc[u] # "idle"]
    /\ UNCHANGED << rvars, gvars, evars, config, braised, transferred, attempted,
                    first_failure >>

\* Lines 43-45, 90-92, 143-145: the option is set to the call's algorithm.
\* io_multi_mask then starts its loop over range(count).
Override(t) ==
    /\ bpc[t] = "override"
    /\ config' = Some(Upper(ResamplingName(bcall[t].resampling)))
    /\ bi' = [bi EXCEPT ![t] = 1]
    /\ bpc' = [bpc EXCEPT ![t] =
                 IF bcall[t].fn # "io_multi_mask" THEN "transfer"
                 ELSE IF Len(bcall[t].indexes) = 0 THEN "restore" ELSE "loop"]
    /\ UNCHANGED << rvars, gvars, evars, idle_config, overlapped, bcall, stored_val, bretval, braised, transferred, attempted,
                    first_failure >>

\* Lines 47-50 (GDALRasterIO) and 94-102 (GDALDatasetRasterIO), with nogil.
Transfer(t) ==
    /\ bpc[t] = "transfer"
    /\ \E status \in {0, 3} :
         /\ bretval' = [bretval EXCEPT ![t] = status]
         /\ first_failure' = [first_failure EXCEPT ![t] = IF status # 0 THEN 1 ELSE 0]
    /\ bpc' = [bpc EXCEPT ![t] = "restore"]
    /\ UNCHANGED << rvars, gvars, evars, idle_config, overlapped, config, bcall, stored_val, bi, braised, transferred, attempted >>

\* Line 149: GDALGetRasterBand(hds, j) is NULL for an index that is no band.
BandIsNull(j) == j \notin 1..MaxBands

\* Faulty variant of AfterMaskIO: no break on a non-zero status.
AfterMaskIO_NoBreak(status, i, count) == IF i < count THEN "loop" ELSE "restore"

\* Lines 162-163 and the loop header of line 147: where io_multi_mask goes
\* after the GDALRasterIO of position i returned status.
AfterMaskIO(status, i, count) ==
    IF status # 0 THEN "restore"
    ELSE IF i < count THEN "loop" ELSE "restore"

\* Lines 147-163: one pass of the loop of io_multi_mask.
MaskStep(t) ==
    /\ bpc[t] = "loop"
    /\ LET j == bcall[t].indexes[bi[t]]
           Fail(err) ==
               /\ braised' = [braised EXCEPT ![t] = err]
               /\ first_failure' = [first_failure EXCEPT ![t] = bi[t]]
               /\ bpc' = [bpc EXCEPT ![t] = "done"]
               /\ UNCHANGED << bi, bretval, transferred, attempted >>
       IN IF BandIsNull(j) THEN Fail(NullBand)
          ELSE \E outcome \in {NullMaskBand, NullData, "io"} :
                 IF outcome # "io" THEN Fail(outcome)
                 ELSE \E status \in {0, 3} :
                        /\ bretval' = [bretval EXCEPT ![t] = status]
                        /\ attempted' = [attempted EXCEPT ![t] = Append(@, j)]
                        /\ transferred' = [transferred EXCEPT ![t] =
                                             IF status = 0 THEN Append(@, j) ELSE @]
                        /\ first_failure' = [first_failure EXCEPT ![t] =
                                               IF status # 0 THEN bi[t] ELSE @]
                        /\ bpc' = [bpc EXCEPT ![t] =
                                     AfterMaskIO(status, bi[t], Len(bcall[t].indexes))]
                        /\ bi' = [bi EXCEPT ![t] =
                                    IF bpc'[t] = "loop" THEN @ + 1 ELSE @]
                        /\ UNCHANGED braised
    /\ UNCHANGED << rvars, gvars, evars, idle_config, overlapped, config, bcall, stored_val >>

\* Lines 52-55, 104-107, 164-167: the saved value is set back and the status
\* is returned.
Restore(t) ==
    /\ bpc[t] = "restore"
    /\ config' = stored_val[t]
    /\ bpc' = [bpc EXCEPT ![t] = "done"]
    /\ UNCHANGED << rvars, gvars, evars, idle_config, overlapped, bcall, stored_val, bi, bretval, braised, transferred, attempted,
                    first_failure >>

\* The caller has the status or the exception; the thread can call again.
Return(t) ==
    /\ bpc[t] = "done"
    /\ bpc' = [bpc EXCEPT ![t] = "idle"]
    /\ bcall' = [bcall EXCEPT ![t] = NoCall]
    /\ stored_val' = [stored_val EXCEPT ![t] = None]
    /\ bi' = [bi EXCEPT ![t] = 0]
    /\ bretval' = [bretval EXCEPT ![t] = 3]
    /\ braised' = [braised EXCEPT ![t] = NoError]
    /\ transferred' = [transferred EXCEPT ![t] = <<>>]
    /\ attempted' = [attempted EXCEPT ![t] = <<>>]
    /\ first_failure' = [first_failure EXCEPT ![t] = 0]
    /\ overlapped' = [overlapped EXCEPT ![t] = FALSE]
    /\ UNCHANGED << rvars, gvars, evars, idle_config, config >>

\* A call of one of the three functions by thread t while no other shim call
\* is in progress.
CallAlone(t) ==
    /\ \A u \in Threads : bpc[u] = "idle"
    /\ \E fn \in {"io_band", "io_multi_band", "io_multi_mask"},
          resampling \in ResamplingChoices, indexes \in IndexChoices :
         /\ fn = "io_band" => indexes = <<>>
         /\ Enter(t, fn, resampling, indexes)

BNext ==
    \E t \in Threads :
       \/ CallAlone(t) \/ Override(t) \/ Transfer(t) \/ MaskStep(t)
       \/ Restore(t) \/ Return(t)

\* Calls of io_band and io_multi_band from several threads.  The functions
\* run with the GIL held except in their nogil blocks (lines 47-50, 94-102):
\* thread t takes a step of such a function outside the nogil block only
\* when no other thread is between its save of the option (lines 41, 88) and
\* its nogil block.
GilFreeFor(t) == \A u \in Threads \ {t} : bpc[u] # "override"

\* Thread t calls io_band or io_multi_band, whatever the other threads'
\* calls are doing in their nogil blocks.
CallOverlapping(t) ==
    /\ GilFreeFor(t)
    /\ \E fn \in {"io_band", "io_multi_band"}, resampling \in ResamplingChoices :
         Enter(t, fn, resampling,
               IF fn = "io_band" THEN <<>> ELSE Range1(MaxBands))

\* Lines 52-55, 104-107, once the GIL is taken again after the nogil block.
RestoreWithGil(t) == GilFreeFor(t) /\ Restore(t)

ReturnWithGil(t) == GilFreeFor(t) /\ Return(t)

ConcurrentNext ==
    \E t \in Threads :
       \/ CallOverlapping(t) \/ Override(t) \/ Transfer(t)
       \/ RestoreWithGil(t) \/ ReturnWithGil(t)

(* --------------------------- _transform_geom -------------------------- *)

\* The native resources of a call, by the name of the local that holds them.
GeomResources ==
    {"src", "dst", "transform", "options", "factory", "src_geom", "dst_geom"}

\* Dateline offsets and precisions the callers pass.
OffsetChoices == {0, 10}

PrecisionChoices == {-1, 0, 2}

GeomArguments ==
    [ antimeridian_cutting : BOOLEAN, antimeridian_offset : OffsetChoices,
      precision : PrecisionChoices ]

\* Errors of _transform_geom other than CRSError and the CPLE error.
GeometryError == "ValueError raised by OGRGeomBuilder.build or GeomBuilder.build"

RoundingError == "exception raised while rounding the coordinates"

\* Lines 43-49: the locals are NULL.
GInit ==
    /\ gpc = "src_crs"
    /\ gargs \in GeomArguments
    /\ gres = [r \in GeomResources |-> "NULL"]
    /\ gfreed = [r \in GeomResources |-> 0]
    /\ options = <<>>
    /\ passed_options = None
    /\ graised = NoError

\* No _transform_geom call.
GIdle ==
    /\ gpc = "idle"
    /\ gargs = [ antimeridian_cutting |-> FALSE, antimeridian_offset |-> 0,
                 precision |-> -1 ]
    /\ gres = [r \in GeomResources |-> "NULL"]
    /\ gfreed = [r \in GeomResources |-> 0]
    /\ options = <<>>
    /\ passed_options = None
    /\ graised = NoError

\* The release functions called on the resources of set rs: the state of the
\* resources and the count of release calls afterwards.  A call on a NULL
\* pointer releases nothing.
GRelease(res, rs) ==
    [r \in GeomResources |-> IF r \in rs THEN Destroyed(res[r]) ELSE res[r]]

GCountRelease(res, rs) ==
    [r \in GeomResources |-> Count(gfreed[r], r \in rs /\ res[r] # "NULL")]

\* Line 52: src = osr_from_crs(src_crs).
GSrcCrs ==
    /\ gpc = "src_crs"
    /\ \E resolved \in BOOLEAN :
         IF resolved
         THEN /\ gres' = [gres EXCEPT !["src"] = "live"]
              /\ gpc' = "dst_crs" /\ graised' = graised
         ELSE /\ gpc' = "done" /\ graised' = CRSError
              /\ UNCHANGED gres
    /\ UNCHANGED << rvars, bvars, evars, gargs, gfreed, options, passed_options >>

\* Line 53: dst = osr_from_crs(dst_crs); an exception leaves the function
\* from here, no try block being open.
GDstCrs ==
    /\ gpc = "dst_crs"
    /\ \E resolved \in BOOLEAN :
         IF resolved
         THEN /\ gres' = [gres EXCEPT !["dst"] = "live"]
              /\ gpc' = "transformation" /\ graised' = graised
         ELSE /\ gpc' = "done" /\ graised' = CRSError
              /\ UNCHANGED gres
    /\ UNCHANGED << rvars, bvars, evars, gargs, gfreed, options, passed_options >>

\* Lines 55-61: OCTNewCoordinateTransformation; the except clause releases
\* the two spatial references and raises again.
GTransformation ==
    /\ gpc = "transformation"
    /\ \E ok \in BOOLEAN :
         IF ok
         THEN /\ gres' = [gres EXCEPT !["transform"] = "live"]
              /\ gpc' = "options" /\ graised' = graised
              /\ UNCHANGED gfreed
         ELSE /\ gres' = GRelease(gres, {"src", "dst"})
              /\ gfreed' = GCountRelease(gres, {"src", "dst"})
              /\ gpc' = "done" /\ graised' = CPLE_Error
    /\ UNCHANGED << rvars, bvars, evars, gargs, options, passed_options >>

\* Faulty variant of TransformOptions: WRAPDATELINE is set whatever the flag.
TransformOptions_AlwaysWrap(cutting, offset) ==
    CSLSetNameValue(CSLSetNameValue(<<>>, "DATELINEOFFSET", Str(offset)),
                    "WRAPDATELINE", "YES")

\* Lines 64-67: the option list made from the two antimeridian arguments.
TransformOptions(cutting, offset) ==
    LET with_offset == CSLSetNameValue(<<>>, "DATELINEOFFSET", Str(offset))
    IN IF cutting THEN CSLSetNameValue(with_offset, "WRAPDATELINE", "YES")
                  ELSE with_offset

\* Lines 63-67.
GOptions ==
    /\ gpc = "options"
    /\ options' = TransformOptions(gargs.antimeridian_cutting,
                                   gargs.antimeridian_offset)
    /\ gres' = [gres EXCEPT !["options"] = "live"]
    /\ gpc' = "build"
    /\ UNCHANGED << rvars, bvars, evars, gargs, gfreed, passed_options, graised >>

\* Lines 70-71: the geometry factory and the source geometry.
GBuild ==
    /\ gpc = "build"
    /\ \E built \in BOOLEAN :
         IF built
         THEN /\ gres' = [gres EXCEPT !["factory"] = "live", !["src_geom"] = "live"]
              /\ gpc' = "transform" /\ graised' = graised
         ELSE /\ gres' = [gres EXCEPT !["factory"] = "live"]
              /\ gpc' = "finally" /\ graised' = GeometryError
    /\ UNCHANGED << rvars, bvars, evars, gargs, gfreed, options, passed_options >>

\* Lines 72-77: transformWithOptions and cple.check(); when the check raises
\* the call may or may not have returned a geometry.
GTransform ==
    /\ gpc = "transform"
    /\ passed_options' = Some(options)
    /\ \E ok \in BOOLEAN, made \in BOOLEAN :
         /\ ok => made
         /\ gres' = [gres EXCEPT !["dst_geom"] = IF made THEN "live" ELSE "NULL"]
         /\ IF ok THEN gpc' = "result" /\ graised' = graised
                  ELSE gpc' = "finally" /\ graised' = CPLE_Error
    /\ UNCHANGED << rvars, bvars, evars, gargs, gfreed, options >>

\* Line 79: result = GeomBuilder().build(dst_geom).
GResult ==
    /\ gpc = "result"
    /\ \E built \in BOOLEAN :
         IF built
         THEN /\ gpc' = IF gargs.precision >= 0 THEN "round" ELSE "finally"
              /\ graised' = graised
         ELSE gpc' = "finally" /\ graised' = GeometryError
    /\ UNCHANGED << rvars, bvars, evars, gargs, gres, gfreed, options, passed_options >>

\* Lines 81-84: the coordinates are rounded; a result without 'coordinates'
\* (a geometry collection) raises.
GRound ==
    /\ gpc = "round"
    /\ \E rounded \in BOOLEAN :
         /\ graised' = IF rounded THEN graised ELSE RoundingError
         /\ gpc' = "finally"
    /\ UNCHANGED << rvars, bvars, evars, gargs, gres, gfreed, options, passed_options >>

\* Lines 88-96: the finally clause, then the return of line 86 or the pending
\* exception.
GFinally ==
    /\ gpc = "finally"
    /\ gres' = GRelease(gres, GeomResources)
    /\ gfreed' = GCountRelease(gres, GeomResources)
    /\ gpc' = "done"
    /\ UNCHANGED << rvars, bvars, evars, gargs, options, passed_options, graised >>

GNext ==
    \/ GSrcCrs \/ GDstCrs \/ GTransformation \/ GOptions \/ GBuild
    \/ GTransform \/ GResult \/ GRound \/ GFinally

(* -------------------- _calculate_default_transform ------------------- *)

\* The scratch resources of a call: the spatial reference of dst_crs, the
\* exported WKT text, the InMemoryRaster and the transformer.
EstimateResources == {"osr", "wkt", "temp", "hTransformArg"}

\* The calls of the model: each of left, bottom, right, top is None or the
\* edge of the box (0, 0, 4, 2); the raster is 2 by 2; gcps are given or not.
EstimateArguments ==
    [ left : {None, Some(0)}, bottom : {None, Some(0)},
      right : {None, Some(4)}, top : {None, Some(2)},
      width : {2}, height : {2}, gcps : BOOLEAN ]

\* rasterio.transform.from_bounds(west, south, east, north, width, height):
\* the affine coefficients (a, b, c, d, e, f).
from_bounds(west, south, east, north, width, height) ==
    << (east - west) \div width, 0, west,
       0, (south - north) \div height, north >>

\* Affine.to_gdal(): (c, a, b, f, d, e).
to_gdal(t) == << t[3], t[1], t[2], t[6], t[4], t[5] >>

\* The ValueError of line 555: the spec's ConfigurationError of
\* estimateTransform.
BoundsError == "ValueError: Some, but not all, bounding box parameters were provided."

\* Native errors a cple.check() raises.
CPLE_NotSupportedError == "CPLE_NotSupportedError"

ReprojectionFailed ==
    "CPLE_AppDefinedError: Reprojection failed, err = -14, further errors will be suppressed on the transform object."

CPLE_AppDefinedError == "CPLE_AppDefinedError: other application-defined error"

CPLE_OpenFailedError == "CPLE_OpenFailedError"

NativeErrors ==
    { CPLE_NotSupportedError, ReprojectionFailed, CPLE_AppDefinedError,
      CPLE_OpenFailedError }

\* isinstance(err, CPLE_AppDefinedError)
IsAppDefined(err) == err \in {ReprojectionFailed, CPLE_AppDefinedError}

\* "Reprojection failed" in str(err)
MentionsReprojectionFailed(err) == err = ReprojectionFailed

\* Lines 545-546 and 537-538: the outputs before GDALSuggestedWarpOutput2.
ZeroOutput ==
    [ geotransform |-> <<0, 0, 0, 0, 0, 0>>, npixels |-> 0, nlines |-> 0 ]

\* What GDALSuggestedWarpOutput2 writes for the raster of the model.
SuggestedOutput ==
    [ geotransform |-> <<0, 1, 0, 2, 0, -1>>, npixels |-> 4, nlines |-> 2 ]

\* Lines 536-546.
EInit ==
    /\ epc = "bounds"
    /\ eargs \in EstimateArguments
    /\ transform = None
    /\ eres = [r \in EstimateResources |-> "NULL"]
    /\ efreed = [r \in EstimateResources |-> 0]
    /\ temp = None
    /\ captured = NoError
    /\ suggested = FALSE
    /\ output = ZeroOutput
    /\ eraised = NoError
    /\ eresult = None

\* No _calculate_default_transform call.
EIdle ==
    /\ epc = "idle"
    /\ eargs = [ left |-> None, bottom |-> None, right |-> None, top |-> None,
                 width |-> 2, height |-> 2, gcps |-> FALSE ]
    /\ transform = None
    /\ eres = [r \in EstimateResources |-> "NULL"]
    /\ efreed = [r \in EstimateResources |-> 0]
    /\ temp = None
    /\ captured = NoError
    /\ suggested = FALSE
    /\ output = ZeroOutput
    /\ eraised = NoError
    /\ eresult = None

\* The release call of resource r.
ERelease(r) ==
    /\ eres' = [eres EXCEPT ![r] = Destroyed(eres[r])]
    /\ efreed' = [efreed EXCEPT ![r] = Count(efreed[r], eres[r] # "NULL")]

\* Faulty variant of BoundingBox: a partial box is taken as no box.
BoundingBox_PartialAsNone(left, bottom, right, top) ==
    IF \A x \in {left, bottom, right, top} : x # None THEN "all" ELSE "none"

\* Lines 551, 554, 557: all four edges given, some of them, or none.
BoundingBox(left, bottom, right, top) ==
    IF \A x \in {left, bottom, right, top} : x # None THEN "all"
    ELSE IF \E x \in {left, bottom, right, top} : x # None THEN "some"
    ELSE "none"

\* Lines 551-559.
EBounds ==
    /\ epc = "bounds"
    /\ LET box == BoundingBox(eargs.left, eargs.bottom, eargs.right, eargs.top)
       IN CASE box = "all" ->
                 /\ transform' = Some(to_gdal(from_bounds(
                        eargs.left[1], eargs.bottom[1], eargs.right[1], eargs.top[1],
                        eargs.width, eargs.height)))
                 /\ epc' = "dst_crs" /\ eraised' = eraised
            [] box = "some" ->
                 /\ epc' = "done" /\ eraised' = BoundsError
                 /\ UNCHANGED transform
            [] box = "none" ->
                 /\ transform' = None
                 /\ epc' = "dst_crs" /\ eraised' = eraised
    /\ UNCHANGED << rvars, bvars, gvars, eargs, eres, efreed, temp, captured,
                    suggested, output, eresult >>

\* Lines 561-563: the spatial reference of dst_crs is made, exported to wkt
\* and destroyed.
EDstCrs ==
    /\ epc = "dst_crs"
    /\ \E resolved \in BOOLEAN :
         IF resolved
         THEN /\ eres' = [eres EXCEPT !["osr"] = "destroyed", !["wkt"] = "live"]
              /\ efreed' = [efreed EXCEPT !["osr"] = @ + 1]
              /\ epc' = "temp" /\ eraised' = eraised
         ELSE /\ epc' = "done" /\ eraised' = CRSError
              /\ UNCHANGED << eres, efreed >>
    /\ UNCHANGED << rvars, bvars, gvars, eargs, transform, temp, captured,
                    suggested, output, eresult >>

\* Lines 565-566: the InMemoryRaster is made and entered; an exception of its
\* constructor leaves the function from here, the try block of line 567 not
\* being entered.
ETemp ==
    /\ epc = "temp"
    /\ \E made \in BOOLEAN :
         IF made
         THEN /\ temp' = Some([transform |-> transform, gcps |-> eargs.gcps])
              /\ eres' = [eres EXCEPT !["temp"] = "live"]
              /\ epc' = "transformer" /\ eraised' = eraised
         ELSE /\ epc' = "done" /\ eraised' = CPLE_Error
              /\ UNCHANGED << temp, eres >>
    /\ UNCHANGED << rvars, bvars, gvars, eargs, transform, efreed, captured,
                    suggested, output, eresult >>

\* Faulty variant of HandleCaptured: every application-defined error is raised.
HandleCaptured_AllFatal(err) ==
    IF err = CPLE_NotSupportedError THEN CRSError ELSE err

\* Lines 577-587: the exception that leaves the try statement when a check
\* raised err, NoError when the except clause passes.
HandleCaptured(err) ==
    IF err = CPLE_NotSupportedError THEN CRSError
    ELSE IF IsAppDefined(err)
         THEN IF MentionsReprojectionFailed(err) THEN NoError ELSE err
         ELSE err

\* Lines 569-571: GDALCreateGenImgProjTransformer and the first check; when
\* the check raises, the transformer may or may not have been made.
ETransformer ==
    /\ epc = "transformer"
    /\ \E err \in {NoError} \cup NativeErrors, made \in BOOLEAN :
         /\ err = NoError => made
         /\ eres' = [eres EXCEPT !["hTransformArg"] = IF made THEN "live" ELSE "NULL"]
         /\ captured' = err
         /\ IF err = NoError
            THEN epc' = "suggest" /\ eraised' = eraised
            ELSE epc' = "finally" /\ eraised' = HandleCaptured(err)
    /\ UNCHANGED << rvars, bvars, gvars, eargs, transform, efreed, temp,
                    suggested, output, eresult >>

\* Lines 572-575: GDALSuggestedWarpOutput2 and the second check.  The routine
\* writes its outputs when it succeeds and when it only skipped points that
\* failed to reproject; on another error it may have written them or not.
ESuggest ==
    /\ epc = "suggest"
    /\ suggested' = TRUE
    /\ \E err \in {NoError} \cup NativeErrors, written \in BOOLEAN :
         /\ err \in {NoError, ReprojectionFailed} => written
         /\ output' = IF written THEN SuggestedOutput ELSE output
         /\ captured' = err
         /\ eraised' = IF err = NoError THEN eraised ELSE HandleCaptured(err)
    /\ epc' = "finally"
    /\ UNCHANGED << rvars, bvars, gvars, eargs, transform, eres, efreed, temp,
                    eresult >>

\* Lines 588-592: the finally clause: wkt and the transformer are released
\* when not NULL.
EFinally ==
    /\ epc = "finally"
    /\ eres' = [eres EXCEPT !["wkt"] = Destroyed(@), !["hTransformArg"] = Destroyed(@)]
    /\ efreed' = [efreed EXCEPT
                    !["wkt"] = Count(@, eres["wkt"] # "NULL"),
                    !["hTransformArg"] = Count(@, eres["hTransformArg"] # "NULL")]
    /\ epc' = "exit"
    /\ UNCHANGED << rvars, bvars, gvars, eargs, transform, temp, captured,
                    suggested, output, eraised, eresult >>

\* Lines 565 and 594-599: the with statement is left, which closes the
\* InMemoryRaster; without a pending exception the outputs are returned.
EExit ==
    /\ epc = "exit"
    /\ ERelease("temp")
    /\ eresult' = IF eraised = NoError THEN Some(output) ELSE None
    /\ epc' = "done"
    /\ UNCHANGED << rvars, bvars, gvars, eargs, transform, temp, captured,
                    suggested, output, eraised >>

ENext ==
    \/ EBounds \/ EDstCrs \/ ETemp \/ ETransformer \/ ESuggest \/ EFinally
    \/ EExit

(* --------------------------- specifications --------------------------- *)

\* One call of _reproject.
Init == RInit /\ BIdle /\ GIdle /\ EIdle

Spec == Init /\ [][RNext]_vars

\* Calls of the shim's transfer functions, one at a time.
InitBridge == BInit /\ RIdle /\ GIdle /\ EIdle

SpecBridge == InitBridge /\ [][BNext]_vars

\* Calls of io_band and io_multi_band from two threads, overlapping.
InitConcurrent == BInit /\ RIdle /\ GIdle /\ EIdle

SpecConcurrent == InitConcurrent /\ [][ConcurrentNext]_vars

\* One call of _transform_geom.
InitGeom == GInit /\ RIdle /\ BIdle /\ EIdle

SpecGeom == InitGeom /\ [][GNext]_vars

\* One call of _calculate_default_transform.
InitEstimate == EInit /\ RIdle /\ BIdle /\ GIdle

SpecEstimate == InitEstimate /\ [][ENext]_vars

(* ------------------------------ properties ---------------------------- *)

\* The call has ended, by return or by exception.
Done == pc = "done"

\* Errors raised by the steps before the nodata check of line 419.
SetupFailures ==
    { DriverRegistrationError, CPLE_Error, CRSError, InvalidSource,
      InvalidDestination, ShapeError, TransformError, ProjectionError }

\* Positions of _reproject after the nodata check of line 419.
PastNodataCheck ==
    pc \in { "validate_src", "validate_dst", "bands", "initialize", "execute",
             "read_back", "close_dst", "finally" }

\* A source nodata can be resolved: passed explicitly, or the fill value of a
\* masked source array, or the nodata stored in the source's dataset.
SrcNodataResolvable ==
    \/ args.src_nodata # None
    \/ has_fill_value(source)
    \/ source.kind = "tuple" /\ source.nodata # None

\* The destination's own nodata: the fill value of a masked array, the nodata
\* stored in a Band tuple's dataset.
DstOwnNodata ==
    IF is_ndarray(destination) THEN destination.fill_value ELSE destination.nodata

\* The number of channels of the destination argument.
DstChannelCount ==
    IF is_ndarray(destination) THEN destination.shape0 ELSE Len(destination.bidx)

\* C1 (as claimed): when _reproject has returned or raised, no temporary
\* in-memory dataset it created for an ndarray source or destination is still
\* open.
C1_EphemeralDatasetsClosed ==
    Done => datasets.src_mem # "open" /\ datasets.dst_mem # "open"

\* C2 (as claimed): when _reproject has returned or raised, the transformer,
\* the warp options structure and the transformer option list, if created,
\* have each been released exactly once.
C2_ReleasedExactlyOnce ==
    Done =>
      /\ hTransformArg # "NULL" => released.transformer = 1
      /\ psWOptions.state # "NULL" => released.warp_options = 1
      /\ imgProjOptions # <<>> => released.option_list = 1

\* C3: in every state of a call of _reproject, a dataset handle that came in
\* with a Band tuple source or destination is open: the call never closes it.
C3_HandlesStayOpen ==
    /\ source.kind = "tuple" => datasets.src_handle = "open"
    /\ destination.kind = "tuple" => datasets.dst_handle = "open"

\* C3 witness: a call with a Band source and an ndarray destination has ended
\* after closing its temporary destination, the source's handle still open.
C3_Witness ==
    /\ Done /\ raised = NoError
    /\ source.kind = "tuple" /\ is_ndarray(destination)
    /\ datasets.dst_mem = "closed" /\ datasets.src_handle = "open"

\* The caller passed a destination nodata and no source nodata can be
\* resolved.
DstNodataWithoutSrc == args.dst_nodata # None /\ ~SrcNodataResolvable

\* C4: a call with a destination nodata and no resolvable source nodata never
\* gets past the nodata check, never initialises or runs the warper and never
\* returns normally; the nodata check, once reached, raises the
\* ConfigurationError, so the call ends with it unless a setup step failed
\* before.  A call with a resolvable source nodata and no destination nodata
\* passed never ends with the ConfigurationError.
C4_DstNodataNeedsSrcNodata ==
    /\ [](DstNodataWithoutSrc =>
            /\ ~PastNodataCheck
            /\ oWarper.initialized = 0 /\ oWarper.calls = <<>>
            /\ Done => raised \in {ConfigurationError} \cup SetupFailures)
    /\ [][DstNodataWithoutSrc /\ pc = "nodata" =>
            pc' = "done" /\ raised' = ConfigurationError]_vars
    /\ [](SrcNodataResolvable /\ args.dst_nodata = None =>
            raised # ConfigurationError)

\* C4 witness: a call with a Band source whose dataset stores no nodata, no
\* src_nodata and a dst_nodata has ended with the ConfigurationError.
C4_Witness ==
    /\ Done /\ raised = ConfigurationError
    /\ source.kind = "tuple" /\ source.nodata = None
    /\ args.src_nodata = None /\ args.dst_nodata # None

\* C5 (as claimed): with no dst_nodata passed, every band's destination
\* nodata in the warp options is the resolved source nodata if there is one,
\* else 0.
C5_DefaultFromSourceOnly ==
    args.dst_nodata = None /\ psWOptions.padfDstNoDataReal # <<>> =>
        \A i \in DOMAIN psWOptions.padfDstNoDataReal :
            psWOptions.padfDstNoDataReal[i] =
                IF src_nodata # None THEN src_nodata[1] ELSE 0

\* C5 (amended): with no dst_nodata passed, every band's destination nodata
\* in the warp options is the destination's own nodata (fill value of a
\* masked array, nodata stored in the Band's dataset) if it has one, else the
\* resolved source nodata if there is one, else 0.
C5_DefaultDstNodata ==
    args.dst_nodata = None /\ psWOptions.padfDstNoDataReal # <<>> =>
        /\ Len(psWOptions.padfDstNoDataReal) = src_count
        /\ \A i \in 1..src_count :
             psWOptions.padfDstNoDataReal[i] =
                 IF DstOwnNodata # None THEN DstOwnNodata[1]
                 ELSE IF src_nodata # None THEN src_nodata[1] ELSE 0

\* C5 witness: a warp has run with no dst_nodata passed, a destination
\* without nodata of its own, and the source nodata in the warp options.
C5_Witness ==
    /\ Done /\ raised = NoError /\ oWarper.calls # <<>>
    /\ args.dst_nodata = None /\ DstOwnNodata = None
    /\ src_nodata = Some(5)
    /\ psWOptions.padfDstNoDataReal = [i \in 1..src_count |-> 5]

\* The nodata values of both sides lie in the range of their side's dtype.
NodataInRange ==
    /\ src_nodata # None => in_dtype_range(src_nodata[1], source.dtype)
    /\ dst_nodata # None /\ in_dtype_range(dst_nodata[1], destination.dtype)
    /\ \A i \in DOMAIN psWOptions.padfSrcNoDataReal :
         in_dtype_range(psWOptions.padfSrcNoDataReal[i], source.dtype)
    /\ \A i \in DOMAIN psWOptions.padfDstNoDataReal :
         in_dtype_range(psWOptions.padfDstNoDataReal[i], destination.dtype)

\* C6: the source validation, reached with a source nodata outside the source
\* dtype's range, raises the source RangeError; the destination validation,
\* reached with a destination nodata (passed or defaulted) outside the
\* destination dtype's range, raises the destination RangeError; and whenever
\* the warper has been initialised or run, both nodata values and the
\* per-band nodata arrays are in range.
C6_NodataRangeChecked ==
    /\ [][pc = "validate_src" /\ src_nodata # None
            /\ ~in_dtype_range(src_nodata[1], source.dtype) =>
               pc' = "done" /\ raised' = SrcRangeError]_vars
    /\ [][pc = "validate_dst" /\ ~in_dtype_range(dst_nodata[1], destination.dtype) =>
               pc' = "done" /\ raised' = DstRangeError]_vars
    /\ [](oWarper.initialized > 0 \/ oWarper.calls # <<>> => NodataInRange)

\* C6 witness: src_nodata = 5, dst_nodata = -1 and an unsigned 8-bit
\* destination: the call has ended with the destination RangeError.
C6_Witness ==
    /\ Done /\ raised = DstRangeError
    /\ args.src_nodata = Some(5) /\ args.dst_nodata = Some(-1)
    /\ destination.dtype = "uint8"
    /\ oWarper.initialized = 0

\* C7 (as claimed): the warp is run only when the destination's channel count
\* equals the source's.
C7_WarpOnlyOnEqualCounts ==
    oWarper.calls # <<>> => DstChannelCount = src_count

(* The shim. *)

\* The value the call of thread t sets the option to.
OwnAlgorithm(t) == Some(Upper(ResamplingName(bcall[t].resampling)))

\* The failure kind of the spec's taxonomy that the ended call of thread t
\* surfaces: the three ValueErrors of io_multi_mask are NullChannelFailure, a
\* non-zero status is IOFailure.
Outcome(t) ==
    IF braised[t] \in {NullBand, NullMaskBand, NullData} THEN "NullChannelFailure"
    ELSE IF bretval[t] # 0 THEN "IOFailure"
    ELSE "ok"

\* C8 (as claimed): while a call made alone is in its native transfer the
\* option holds the call's own algorithm, and when the call has ended, by
\* return or by exception, the option holds the value it had when the call
\* began.
C8_OptionScoped ==
    \A t \in Threads :
       /\ bpc[t] \in {"transfer", "loop"} => config = OwnAlgorithm(t)
       /\ bpc[t] = "done" => config = stored_val[t]

\* C9: when a call of io_multi_mask has ended and position k is the first
\* whose channel failed (NULL band, NULL mask band, NULL buffer, or non-zero
\* status), the channels transferred are exactly those of the positions
\* before k, in the order of indexes; GDALRasterIO was called for no position
\* after k; and the call ends with that failure: the exception of position k,
\* or the non-zero status.  At any time the transferred channels are a prefix
\* of indexes.
C9_StopsAtFirstFailure ==
    \A t \in Threads :
       bcall[t].fn = "io_multi_mask" =>
          LET indexes == bcall[t].indexes
              k == first_failure[t]
          IN /\ Len(transferred[t]) <= Len(indexes)
             /\ transferred[t] = SubSeq(indexes, 1, Len(transferred[t]))
             /\ bpc[t] = "done" /\ k > 0 =>
                  /\ transferred[t] = SubSeq(indexes, 1, k - 1)
                  /\ IF braised[t] # NoError
                     THEN /\ attempted[t] = SubSeq(indexes, 1, k - 1)
                          /\ braised[t] = NullBand <=> BandIsNull(indexes[k])
                     ELSE /\ attempted[t] = SubSeq(indexes, 1, k)
                          /\ bretval[t] # 0
                  /\ Outcome(t) # "ok"

\* C9 witness: a call of io_multi_mask over three channels has ended with the
\* failure of the second: the first is transferred, the third not attempted.
C9_Witness ==
    \E t \in Threads :
       /\ bpc[t] = "done" /\ bcall[t].fn = "io_multi_mask"
       /\ Len(bcall[t].indexes) = 3 /\ first_failure[t] = 2
       /\ transferred[t] = << bcall[t].indexes[1] >>
       /\ Len(attempted[t]) <= 2

\* C10 (as claimed): a call of io_multi_mask with an empty indexes array ends
\* with the failure kind InvalidInput and calls GDALRasterIO for no channel.
C10_EmptySelectionInvalidInput ==
    \A t \in Threads :
       bpc[t] = "done" /\ bcall[t].fn = "io_multi_mask" /\ bcall[t].indexes = <<>> =>
          Outcome(t) = "InvalidInput" /\ attempted[t] = <<>>

(* _reproject, continued. *)

\* C11 (as claimed): a non-zero status of io_auto (source write, destination
\* write, read-back) ends the call with an exception: the call does not go on
\* to its next step and does not return normally.
C11_TransferFailureRaises ==
    retval # 0 => pc \in {"finally", "done"} /\ raised # NoError

(* _transform_geom. *)

\* C12 (as claimed): when _transform_geom has returned or raised, no native
\* resource it created is still live, and each one created has had exactly
\* one release call.
C12_GeomResourcesReleased ==
    gpc = "done" =>
       \A r \in GeomResources :
          /\ gres[r] # "live"
          /\ gfreed[r] = IF gres[r] = "destroyed" THEN 1 ELSE 0

\* C13: the option list transformWithOptions is called with holds
\* DATELINEOFFSET = str(antimeridian_offset), and holds WRAPDATELINE (= YES)
\* exactly when antimeridian_cutting is true; a call that got past the
\* transformation has passed such a list.
C13_DatelineOptions ==
    /\ gpc \in {"result", "round"} => passed_options # None
    /\ passed_options # None =>
         LET o == passed_options[1]
         IN /\ \E i \in DOMAIN o :
                  o[i] = <<"DATELINEOFFSET", Str(gargs.antimeridian_offset)>>
            /\ (\E i \in DOMAIN o : o[i][1] = "WRAPDATELINE")
                  <=> gargs.antimeridian_cutting
            /\ \A i \in DOMAIN o : o[i][1] = "WRAPDATELINE" => o[i][2] = "YES"

\* C13 witness: a call with antimeridian_cutting and offset 10 has returned
\* after transforming with both options in the list.
C13_Witness ==
    /\ gpc = "done" /\ graised = NoError
    /\ gargs.antimeridian_cutting /\ gargs.antimeridian_offset = 10
    /\ passed_options = Some(<< <<"DATELINEOFFSET", "10">>, <<"WRAPDATELINE", "YES">> >>)

(* _calculate_default_transform. *)

\* C14: when a call has ended after a check captured a native error: for
\* "Reprojection failed" the call returned the outputs and raised nothing;
\* for a not-supported error it raised CRSError; for any other error it
\* raised that error; in the last two cases nothing is returned.
C14_ReprojectionFailedNotFatal ==
    epc = "done" /\ captured # NoError =>
       IF captured = ReprojectionFailed
       THEN eraised = NoError /\ eresult = Some(output)
       ELSE /\ eresult = None
            /\ eraised = IF captured = CPLE_NotSupportedError THEN CRSError
                                                              ELSE captured

\* C14 witness: "Reprojection failed" was captured by the check that follows
\* GDALSuggestedWarpOutput2 and the call returned the suggested outputs.
C14_Witness ==
    /\ epc = "done" /\ captured = ReprojectionFailed /\ suggested
    /\ eraised = NoError /\ eresult = Some(SuggestedOutput)

\* C15 (as claimed): when _calculate_default_transform has returned or
\* raised, no scratch resource it acquired (spatial reference, WKT text,
\* InMemoryRaster, transformer) is still live, and each one acquired has had
\* exactly one release call.
C15_ScratchReleased ==
    epc = "done" =>
       \A r \in EstimateResources :
          /\ eres[r] # "live"
          /\ efreed[r] = IF eres[r] = "destroyed" THEN 1 ELSE 0

\* The edges of the bounding box the caller gave.
GivenEdges ==
    { e \in {"left", "bottom", "right", "top"} : eargs[e] # None }

\* C16: with some but not all of the four edges the call ends at the bounds
\* test with the ValueError, acquiring no native resource; with all four the
\* InMemoryRaster gets the geotransform of the box (left, x-resolution, 0,
\* top, 0, -y-resolution); with none it gets no geotransform.
C16_PartialBoundsRejected ==
    /\ GivenEdges # {} /\ Cardinality(GivenEdges) # 4 =>
         /\ epc \in {"bounds", "done"}
         /\ epc = "done" => eraised = BoundsError /\ eresult = None
         /\ \A r \in EstimateResources : eres[r] = "NULL" /\ efreed[r] = 0
         /\ temp = None /\ ~suggested
    /\ temp # None /\ Cardinality(GivenEdges) = 4 =>
         temp[1].transform =
            Some(<< eargs.left[1],
                    (eargs.right[1] - eargs.left[1]) \div eargs.width, 0,
                    eargs.top[1], 0,
                    (eargs.bottom[1] - eargs.top[1]) \div eargs.height >>)
    /\ temp # None /\ GivenEdges = {} => temp[1].transform = None

\* C16 witness: a call with left and top only has ended with the ValueError.
C16_Witness ==
    /\ epc = "done" /\ eraised = BoundsError
    /\ GivenEdges = {"left", "top"}
    /\ \A r \in EstimateResources : eres[r] = "NULL"

(* _reproject, continued. *)

\* The (key, value) pairs of an option list.
Entries(list) == { list[i] : i \in DOMAIN list }

\* The extra options of the call, uppercased.
UpperKwargs == { << Upper(kwargs[i][1]), Upper(kwargs[i][2]) >> : i \in DOMAIN kwargs }

\* C17 (as claimed): the option list the transformer was made with holds
\* GCPS_OK = TRUE and every extra option, uppercased; the warper's option
\* list, once made, holds every extra option.
C17_TransformerOptionsComplete ==
    /\ hTransformArg # "NULL" =>
         /\ <<"GCPS_OK", "TRUE">> \in Entries(imgProjOptions)
         /\ UpperKwargs \subseteq Entries(imgProjOptions)
    /\ PastNodataCheck => UpperKwargs \subseteq Entries(warp_extras)

\* Event e is in the log of the call.
Occurred(e) == \E i \in DOMAIN events : events[i] = e

\* The position of the first e in the log, 0 if there is none.
Pos(e) == IF Occurred(e) THEN CHOOSE i \in DOMAIN events :
                                 events[i] = e /\ \A j \in 1..(i - 1) : events[j] # e
          ELSE 0

\* C18 (as claimed): once the array of an ndarray source georeferenced by
\* src_transform or by gcps has been written to the temporary dataset, and
\* once the transformer is made, the dataset has its CRS set; with both
\* src_transform and gcps only the geotransform is set.
C18_ScratchSourceHasCrs ==
    is_ndarray(source) /\ (args.src_transform \/ args.gcps) /\ Occurred("src_write") =>
       /\ dsattr.crs
       /\ args.src_transform /\ args.gcps => dsattr.geotransform /\ ~dsattr.gcps

\* C19: at most one warp entry point is called, once; a call past the execute
\* step has called exactly one; the entry point is ChunkAndWarpMulti when
\* num_threads > 1 and ChunkAndWarpImage otherwise; its window is (0, 0, cols,
\* rows) of the destination; the GIL is not held during the call.
C19_OneWarpCall ==
    /\ Len(oWarper.calls) <= 1
    /\ Len(oWarper.windows) = Len(oWarper.calls)
    /\ Len(oWarper.gil_held) = Len(oWarper.calls)
    /\ pc \in {"read_back", "close_dst"} => Len(oWarper.calls) = 1
    /\ pc \notin {"read_back", "close_dst", "finally", "done"} => oWarper.calls = <<>>
    /\ oWarper.calls # <<>> =>
         /\ num_threads > 1 => oWarper.calls[1] = "ChunkAndWarpMulti"
         /\ num_threads <= 1 => oWarper.calls[1] = "ChunkAndWarpImage"
         /\ oWarper.windows[1] = <<0, 0, destination.shape[2], destination.shape[1]>>
         /\ oWarper.gil_held[1] = FALSE
         /\ oWarper.initialized = 1

\* C19 witness: a call with num_threads = 2 from a Band source to an ndarray
\* destination has returned after one ChunkAndWarpMulti over the ndarray's
\* extent.
C19_Witness ==
    /\ Done /\ raised = NoError /\ num_threads = 2
    /\ source.kind = "tuple" /\ is_ndarray(destination)
    /\ oWarper.calls = <<"ChunkAndWarpMulti">>
    /\ oWarper.windows = << <<0, 0, 3, 2>> >>

\* The steps of a successful call with an ndarray destination, in order.
SuccessfulSteps ==
    (IF is_ndarray(source) THEN <<"src_write">> ELSE <<>>)
    \o <<"dst_write", "transformer", "warp", "read_back", "close_dst">>
    \o (IF is_ndarray(source) THEN <<"close_src">> ELSE <<>>)

\* C20: a call with an ndarray destination that returned normally has made
\* exactly the steps of SuccessfulSteps in that order; in every call the
\* read-back comes after the warp and before the close of the temporary
\* destination, no step is made twice, and a call that raised has made no
\* read-back.
C20_StepOrder ==
    /\ Done /\ raised = NoError /\ is_ndarray(destination) => events = SuccessfulSteps
    /\ Cardinality(Entries(events)) = Len(events)
    /\ Occurred("read_back") =>
         /\ Occurred("warp") /\ Pos("warp") < Pos("read_back")
         /\ is_ndarray(destination)
    /\ Occurred("close_dst") =>
         Occurred("read_back") /\ Pos("read_back") < Pos("close_dst")
    /\ Occurred("close_src") /\ Occurred("close_dst") =>
         Pos("close_dst") < Pos("close_src")
    /\ raised # NoError => ~Occurred("read_back")

\* C20 witness: a call from an ndarray to an ndarray has returned normally
\* after the seven steps.
C20_Witness ==
    /\ Done /\ raised = NoError
    /\ is_ndarray(source) /\ is_ndarray(destination)
    /\ events = <<"src_write", "dst_write", "transformer", "warp", "read_back",
                  "close_dst", "close_src">>

(* The shim, continued. *)

\* Some call has returned and no call is in progress.
AllReturned ==
    /\ \A t \in Threads : bpc[t] \in {"idle", "done"}
    /\ \E t \in Threads : bpc[t] = "done"

\* C21 (as claimed): with calls of two threads overlapping, every native
\* transfer runs with the option equal to its own call's algorithm, and once
\* the calls have returned the option has the value it had before they began.
C21_OverlappingCallsIsolated ==
    /\ \A t \in Threads : bpc[t] = "transfer" => config = OwnAlgorithm(t)
    /\ AllReturned => config = idle_config

\* C21 (amended): a call that no call of another thread overlaps runs its
\* native transfer with the option equal to its own algorithm, and when it
\* has returned the option has the value it had when the call began; calls
\* that overlap have no such guarantee.
C21_SerializedCallsIsolated ==
    \A t \in Threads :
       ~overlapped[t] =>
          /\ bpc[t] = "transfer" => config = OwnAlgorithm(t)
          /\ bpc[t] = "done" => config = idle_config

\* C21 witness: with the option set to CUBIC by the user, a call of
\* io_multi_band with another algorithm, overlapped by no other call, has
\* returned, the option being CUBIC again.
C21_Witness ==
    \E t \in Threads :
       /\ bpc[t] = "done" /\ ~overlapped[t]
       /\ bcall[t].fn = "io_multi_band" /\ bcall[t].resampling = 1
       /\ idle_config = Some("CUBIC") /\ config = Some("CUBIC")
       /\ \A u \in Threads \ {t} : bpc[u] = "idle"

(* _reproject, continued. *)

\* GDALGetRasterCount of a dataset of the call: the temporary datasets are
\* created with src_count bands (lines 228-230, 313-315); the dataset of a
\* Band tuple has the bands 1..MaxBands.
RasterCount(dataset) ==
    IF dataset \in {"src_mem", "dst_mem"} THEN src_count ELSE MaxBands

\* C22 (as claimed): once the warper is initialised, every source band index
\* of the warp options is a band of the source dataset and every destination
\* band index is a band of the destination dataset.
C22_BandIndicesExist ==
    oWarper.initialized > 0 =>
       /\ \A i \in DOMAIN psWOptions.panSrcBands :
             psWOptions.panSrcBands[i] \in 1..RasterCount(src_dataset)
       /\ \A i \in DOMAIN psWOptions.panDstBands :
             psWOptions.panDstBands[i] \in 1..RasterCount(dst_dataset)

\* C23 (as claimed): a call ends with the ConfigurationError only when the
\* caller passed dst_nodata.
C23_ConfigurationErrorOnlyIfPassed ==
    raised = ConfigurationError => args.dst_nodata # None

\* C25 (as claimed): when _reproject has returned or raised, the
\* GDALWarpOperation it allocated has been deleted.
C25_WarpOperationReleased ==
    Done => oWarper.state # "live"

(* _calculate_default_transform, continued. *)

\* C24 (as claimed): a call that returned normally has called
\* GDALSuggestedWarpOutput2 and returns its outputs, not the zero-initialised
\* placeholders.
C24_ReturnsSuggestedOutput ==
    epc = "done" /\ eraised = NoError =>
       suggested /\ eresult = Some(SuggestedOutput) /\ eresult # Some(ZeroOutput)

====
